---------------------------- MODULE Spec2Model ----------------------------
(***************************************************************************)
(* State-machine model of the evidence processors of the ml-service:       *)
(*   processors/audio.processor.py  (process_audio, transcribe_audio)      *)
(*   processors/text.processor.py   (process_text, cache_result)           *)
(*   processors/image.processor.py  (main, ImageProcessor.process)         *)
(*   processors/video.processor.py  (VideoProcessor)                       *)
(* One run of the model follows one entry point, chosen in Init (entry).   *)
(* Python values are modelled by what the code does with them: a string    *)
(* that is tested with endswith() is a sequence of characters, a value     *)
(* whose type is tested carries its type in the field kind.                *)
(***************************************************************************)
EXTENDS Integers, Sequences, FiniteSets, TLC

VARIABLES
    entry,        \* the entry point this run follows
    clock,        \* wall clock, in seconds
    num_workers,  \* AudioProcessor.__init__(num_workers): size of the pool
    aReq,         \* the arguments of the process_audio call
    aPc,          \* position of the process_audio call
    aTrace,       \* the positions the call went through, in order
    aTasks,       \* the AsyncResults appended to tasks, with their pool state
    aIdx,         \* index of the (task, analysis_type) pair being collected
    aGetStart,    \* clock when the current task.get(timeout=...) was called
    aResults,     \* the results dict
    aLog,         \* the logging records written, in order
    aOut,         \* what the call returned or raised
    result_cache, \* TextProcessor.result_cache: the TTLCache, least recently used first
    tCalls,       \* process_text: the state of each caller's call
    tMade,        \* process_text: the number of calls made so far
    tDone,        \* process_text: the last successful completion per request identity
    tUses,        \* history: the keys held by the cache, by last use, with the time each was inserted
    iReq,         \* image main(): its arguments and the file they name
    iPc,          \* image main(): position
    iModels,      \* ImageProcessor.models: the keys loaded
    iImage,       \* ImageProcessor.process: the size of the image being analysed
    iResults,     \* what ImageProcessor.process returned
    iOut,         \* what main() returned or raised
    iLog,         \* the logging records written by main() and what it calls
    file_hash,    \* VideoProcessor.file_hash
    vReq,         \* VideoProcessor: constructor arguments and the file they name
    vPc,          \* VideoProcessor: position
    frame_idx,    \* process_video: the loop variable
    frame_batch,  \* process_video: the frames waiting for the next batch
    vBatches,     \* process_video: the batches handed to analysis, in order
    frames_processed, \* processing_stats["frames_processed"]
    vOut,         \* what the constructor or process_video returned or raised
    jPc,          \* transcribe_audio: position
    jJob,         \* the transcription service: the state of the job named job_name
    jCalls,       \* the calls made on transcribe_client, in order
    jPending,     \* the return value or exception on its way out of the try block
    jOut,         \* what transcribe_audio returned or raised
    jLog          \* the logging records written by transcribe_audio

aVars == <<num_workers, aReq, aPc, aTrace, aTasks, aIdx, aGetStart, aResults, aLog, aOut>>

tVars == <<result_cache, tCalls, tMade, tDone, tUses>>

iVars == <<iReq, iPc, iModels, iImage, iResults, iOut, iLog>>

vVars == <<file_hash, vReq, vPc, frame_idx, frame_batch, vBatches, frames_processed, vOut>>

jVars == <<jPc, jJob, jCalls, jPending, jOut, jLog>>

vars == <<entry, clock, aVars, tVars, iVars, vVars, jVars>>

(***************************************************************************)
(* Bounds of the model.                                                    *)
(***************************************************************************)
MaxWorkers == 2        \* num_workers ranges over 1..MaxWorkers
AudioTickSeconds == 100 \* process_audio: the clock advances this many seconds at a time
MaxTicks == 5          \* the clock stops after MaxTicks advances
MaxSize == 2           \* capacity of the result cache (stands for maxsize=1000)
TextTickSeconds == 1800 \* process_text: the clock advances this many seconds at a time
MaxTextTicks == 2      \* process_text: the clock stops after MaxTextTicks advances
MaxCalls == 3          \* process_text is called at most MaxCalls times
MaxFrames == 4         \* a video reports at most MaxFrames frames
MaxBatch == 3          \* batch_size ranges over 1..MaxBatch

(***************************************************************************)
(* Generic helpers.                                                        *)
(***************************************************************************)
Range(s) == {s[i] : i \in 1..Len(s)}

Min(a, b) == IF a <= b THEN a ELSE b

None == [kind |-> "none", v |-> ""]

Str(s) == [kind |-> "str", v |-> s]

\* Python truth value of an argument: None and '' are false
Truthy(x) == x.kind # "none" /\ ~(x.kind = "str" /\ x.v = "")

\* str.lower() on a sequence of characters
LowerChar(c) ==
    CASE c = "W" -> "w" [] c = "A" -> "a" [] c = "V" -> "v"
      [] c = "P" -> "p" [] c = "N" -> "n" [] c = "G" -> "g"
      [] OTHER -> c

Lower(p) == [i \in 1..Len(p) |-> LowerChar(p[i])]

\* str.endswith(suffix)
EndsWith(p, suf) ==
    /\ Len(suf) <= Len(p)
    /\ \A i \in 1..Len(suf) : p[Len(p) - Len(suf) + i] = suf[i]

\* [x for x in scores if x >= threshold]; confidences are in hundredths
Kept(scores, threshold) == SelectSeq(scores, LAMBDA x : x >= threshold)

(***************************************************************************)
(* audio.processor.py: constants                                           *)
(***************************************************************************)
SUPPORTED_FORMATS ==
    << <<".", "w", "a", "v">>, <<".", "m", "p", "3">>,
       <<".", "m", "4", "a">>, <<".", "f", "l", "a", "c">> >>

MAX_AUDIO_DURATION == 14400

TIMEOUT_SECONDS == 300

\* The order in which process_audio appends its tasks (lines 139-149)
AudioTaskOrder == <<"transcription", "speaker_identification", "language_detection">>

(***************************************************************************)
(* The inputs the model draws from.                                        *)
(***************************************************************************)
EvidenceIds == {Str("E1"), Str(""), [kind |-> "int", v |-> "7"], None}

FilePaths ==
    { <<"a", ".", "w", "a", "v">>, <<"a", ".", "W", "A", "V">>,
      <<"a", ".", "t", "x", "t">>, <<"w", "a", "v">>,
      <<"a", ".", "p", "n", "g">>, <<>> }

AnalysisTypeLists ==
    { <<>>, <<"transcription">>,
      <<"transcription", "language_detection">>,
      <<"language_detection", "transcription">>,
      <<"ocr", "transcription">>,
      <<"transcription", "speaker_identification", "language_detection">> }

AudioDurations == {60, MAX_AUDIO_DURATION, MAX_AUDIO_DURATION + 1}

AudioRequests ==
    [evidence_id : EvidenceIds, file_path : FilePaths,
     analysis_types : AnalysisTypeLists,
     by_keyword : BOOLEAN,      \* main() passes every argument by keyword
     readable : BOOLEAN,        \* whether librosa.load can read the file
     duration : AudioDurations] \* len(audio_data) / sr

NoReport == [kind |-> "none"]

(***************************************************************************)
(* audio.processor.py: the decorators of process_audio                     *)
(***************************************************************************)
\* any(file_path.lower().endswith(fmt) for fmt in formats)
HasExtension(file_path, formats) ==
    \E i \in 1..Len(formats) : EndsWith(Lower(file_path), formats[i])

\* validate_input.wrapper, lines 73-76: the error it raises, or "ok"
validate_input(evidence_id, file_path) ==
    IF ~Truthy(evidence_id) \/ evidence_id.kind # "str"
    THEN "ValueError: Invalid evidence_id"
    ELSE IF file_path = <<>> \/ ~HasExtension(file_path, SUPPORTED_FORMATS)
         THEN "ValueError: Unsupported file format"
         ELSE "ok"

\* audit_log.wrapper reads kwargs.get('evidence_id', None) of the caller's call
AuditEvidenceId(req) == IF req.by_keyword THEN req.evidence_id ELSE None

\* maintain_chain_of_custody.wrapper reads kwargs.get('evidence_id'), and
\* validate_input.wrapper has passed evidence_id on positionally
CustodyEvidenceId(req) == None

AuditRecord(req, status) ==
    [kind |-> "audit", op |-> "process_audio", status |-> status,
     evidence_id |-> AuditEvidenceId(req)]

CustodyRecord(req) ==
    [kind |-> "custody", op |-> "process_audio", status |-> "started",
     evidence_id |-> CustodyEvidenceId(req)]

\* a plain logging.error line (error_handler, self.logger.error)
ErrorLine(who) ==
    [kind |-> "error", op |-> who, status |-> "error", evidence_id |-> None]

\* an exception leaving the body of process_audio: logged by the body's except
\* clause, by error_handler and by audit_log, in that order
BodyRaise(req, log) ==
    log \o <<ErrorLine("process_audio"), ErrorLine("error_handler"),
             AuditRecord(req, "error")>>

(***************************************************************************)
(* audio.processor.py: AudioProcessor.process_audio                        *)
(***************************************************************************)
AudioIdle ==
    /\ num_workers = 1
    /\ aReq = [evidence_id |-> None, file_path |-> <<>>, analysis_types |-> <<>>,
               by_keyword |-> FALSE, readable |-> FALSE, duration |-> 0]
    /\ aPc = "IDLE"
    /\ aTrace = <<>>
    /\ aTasks = <<>>
    /\ aIdx = 1
    /\ aGetStart = 0
    /\ aResults = <<>>
    /\ aLog = <<>>
    /\ aOut = NoReport

AudioInit ==
    /\ num_workers \in 1..MaxWorkers
    /\ aReq \in AudioRequests
    /\ aPc = "RECEIVED"
    /\ aTrace = <<"RECEIVED">>
    /\ aTasks = <<>>
    /\ aIdx = 1
    /\ aGetStart = 0
    /\ aResults = <<>>
    /\ aLog = <<>>
    /\ aOut = NoReport

AudioGoto(pc) ==
    /\ aPc' = pc
    /\ aTrace' = Append(aTrace, pc)

\* the exception leaves through the except clause of the body (lines 165-167)
AudioFail(err) ==
    /\ AudioGoto("FAILED")
    /\ aLog' = BodyRaise(aReq, aLog)
    /\ aOut' = [kind |-> "raised", error |-> err]

\* mutant of AudioValidate: maintain_chain_of_custody is applied outside
\* validate_input, so the custody record is written before the arguments are
\* validated
AudioValidate_CustodyFirst ==
    /\ entry = "process_audio"
    /\ aPc = "RECEIVED"
    /\ LET v == validate_input(aReq.evidence_id, aReq.file_path) IN
       IF v = "ok"
       THEN /\ AudioGoto("VALIDATED")
            /\ aLog' = Append(aLog, CustodyRecord(aReq))
            /\ aOut' = aOut
       ELSE /\ AudioGoto("FAILED")
            /\ aLog' = aLog \o <<CustodyRecord(aReq), ErrorLine("error_handler"),
                                 AuditRecord(aReq, "error")>>
            /\ aOut' = [kind |-> "raised", error |-> v]
    /\ UNCHANGED <<tVars, iVars, vVars, jVars, entry, clock, num_workers, aReq, aTasks, aIdx, aGetStart, aResults>>

\* audit_log, error_handler, validate_input, maintain_chain_of_custody
\* (lines 122-125): the call enters the decorators from the outside in
AudioValidate ==
    /\ entry = "process_audio"
    /\ aPc = "RECEIVED"
    /\ LET v == validate_input(aReq.evidence_id, aReq.file_path) IN
       IF v = "ok"
       THEN /\ AudioGoto("VALIDATED")
            /\ aLog' = Append(aLog, CustodyRecord(aReq))
            /\ aOut' = aOut
       ELSE /\ AudioGoto("FAILED")
            /\ aLog' = aLog \o <<ErrorLine("error_handler"), AuditRecord(aReq, "error")>>
            /\ aOut' = [kind |-> "raised", error |-> v]
    /\ UNCHANGED <<tVars, iVars, vVars, jVars, entry, clock, num_workers, aReq, aTasks, aIdx, aGetStart, aResults>>

\* lines 130-133: librosa.load and the duration ceiling
AudioLoad ==
    /\ entry = "process_audio"
    /\ aPc = "VALIDATED"
    /\ IF ~aReq.readable
       THEN AudioFail("IOError: cannot load audio")
       ELSE IF aReq.duration > MAX_AUDIO_DURATION
            THEN AudioFail("ValueError: Audio duration exceeds maximum limit")
            ELSE /\ AudioGoto("LOADED")
                 /\ UNCHANGED <<aLog, aOut>>
    /\ UNCHANGED <<tVars, iVars, vVars, jVars, entry, clock, num_workers, aReq, aTasks, aIdx, aGetStart, aResults>>

NewTask(type) == [type |-> type, status |-> "pending", started |-> 0, ran |-> 0]

\* lines 139-149: one apply_async per recognised type that was requested, in
\* the fixed order of the three if statements
SubmittedTasks(analysis_types) ==
    LET wanted == SelectSeq(AudioTaskOrder, LAMBDA t : t \in Range(analysis_types))
    IN  [i \in 1..Len(wanted) |-> NewTask(wanted[i])]

AudioDispatch ==
    /\ entry = "process_audio"
    /\ aPc = "LOADED"
    /\ aTasks' = SubmittedTasks(aReq.analysis_types)
    /\ aIdx' = 1
    /\ aGetStart' = clock
    /\ AudioGoto("DISPATCHED")
    /\ UNCHANGED <<tVars, iVars, vVars, jVars, entry, clock, num_workers, aReq, aResults, aLog, aOut>>

\* zip(tasks, analysis_types) stops at the shorter of the two
ZipLen == Min(Len(aTasks), Len(aReq.analysis_types))

Put(dict, key, value) ==
    [k \in DOMAIN dict \cup {key} |-> IF k = key THEN value ELSE dict[k]]

\* line 153: task.get returns the value the task returned
AudioGetResult ==
    /\ entry = "process_audio"
    /\ aPc = "DISPATCHED"
    /\ aIdx <= ZipLen
    /\ aTasks[aIdx].status = "succeeded"
    /\ aResults' = Put(aResults, aReq.analysis_types[aIdx],
                       [output_of |-> aTasks[aIdx].type])
    /\ aIdx' = aIdx + 1
    /\ aGetStart' = clock
    /\ UNCHANGED <<tVars, iVars, vVars, jVars, entry, clock, num_workers, aReq, aPc, aTrace, aTasks, aLog, aOut>>

\* line 153: task.get re-raises the exception the task raised
AudioGetRaises ==
    /\ entry = "process_audio"
    /\ aPc = "DISPATCHED"
    /\ aIdx <= ZipLen
    /\ aTasks[aIdx].status = "failed"
    /\ AudioFail("TaskError")
    /\ UNCHANGED <<tVars, iVars, vVars, jVars, entry, clock, num_workers, aReq, aTasks, aIdx, aGetStart, aResults>>

GetTimedOut == clock - aGetStart >= TIMEOUT_SECONDS

\* line 153: task.get(timeout=TIMEOUT_SECONDS) raises multiprocessing.TimeoutError
AudioGetTimeout ==
    /\ entry = "process_audio"
    /\ aPc = "DISPATCHED"
    /\ aIdx <= ZipLen
    /\ aTasks[aIdx].status \in {"pending", "running"}
    /\ GetTimedOut
    /\ AudioFail("TimeoutError")
    /\ UNCHANGED <<tVars, iVars, vVars, jVars, entry, clock, num_workers, aReq, aTasks, aIdx, aGetStart, aResults>>

\* mutant of AudioCollected: the loop of lines 152-153 ends after the first task
AudioCollected_AfterFirst ==
    /\ entry = "process_audio"
    /\ aPc = "DISPATCHED"
    /\ aIdx > Min(1, ZipLen)
    /\ AudioGoto("AGGREGATING")
    /\ UNCHANGED <<tVars, iVars, vVars, jVars, entry, clock, num_workers, aReq, aTasks, aIdx, aGetStart, aResults, aLog, aOut>>

\* the for loop of lines 152-153 is exhausted
AudioCollected ==
    /\ entry = "process_audio"
    /\ aPc = "DISPATCHED"
    /\ aIdx > ZipLen
    /\ AudioGoto("AGGREGATING")
    /\ UNCHANGED <<tVars, iVars, vVars, jVars, entry, clock, num_workers, aReq, aTasks, aIdx, aGetStart, aResults, aLog, aOut>>

\* lines 155-163, then audit_log's success record (lines 38-46)
AudioReturn ==
    /\ entry = "process_audio"
    /\ aPc = "AGGREGATING"
    /\ AudioGoto("COMPLETE")
    /\ aOut' = [kind |-> "report", evidence_id |-> aReq.evidence_id,
                results |-> aResults, duration |-> aReq.duration]
    /\ aLog' = Append(aLog, AuditRecord(aReq, "success"))
    /\ UNCHANGED <<tVars, iVars, vVars, jVars, entry, clock, num_workers, aReq, aTasks, aIdx, aGetStart, aResults>>

(***************************************************************************)
(* multiprocessing.Pool(num_workers): the workers take the submitted tasks *)
(* in order; a task ends by returning or by raising.                       *)
(***************************************************************************)
\* identify_speakers (lines 230-234) and detect_language (lines 266-270) move
\* their tensors to self.device and run a model there; transcribe_audio only
\* calls the transcription service
GpuBound == {"speaker_identification", "language_detection"}

Running == {i \in 1..Len(aTasks) : aTasks[i].status = "running"}

Pending == {i \in 1..Len(aTasks) : aTasks[i].status = "pending"}

CanStart(i) ==
    /\ i \in Pending
    /\ \A j \in Pending : i <= j
    /\ Cardinality(Running) < num_workers

WorkerStart(i) ==
    /\ entry = "process_audio"
    /\ CanStart(i)
    /\ aTasks' = [aTasks EXCEPT ![i].status = "running", ![i].started = clock]
    /\ UNCHANGED <<tVars, iVars, vVars, jVars, entry, clock, num_workers, aReq, aPc, aTrace, aIdx, aGetStart, aResults, aLog, aOut>>

WorkerFinish(i, status) ==
    /\ entry = "process_audio"
    /\ i \in Running
    /\ aTasks' = [aTasks EXCEPT ![i].status = status, ![i].ran = clock - aTasks[i].started]
    /\ UNCHANGED <<tVars, iVars, vVars, jVars, entry, clock, num_workers, aReq, aPc, aTrace, aIdx, aGetStart, aResults, aLog, aOut>>

\* Time passes while process_audio waits in task.get.  A get returns as soon as
\* its task has ended and raises as soon as its timeout has passed; a free
\* worker takes a waiting task at once.
AudioTickEnabled ==
    /\ aPc = "DISPATCHED"
    /\ aIdx <= ZipLen
    /\ aTasks[aIdx].status \in {"pending", "running"}
    /\ ~GetTimedOut
    /\ \A i \in 1..Len(aTasks) : ~CanStart(i)

AudioTick ==
    /\ entry = "process_audio"
    /\ AudioTickEnabled
    /\ clock < MaxTicks * AudioTickSeconds
    /\ clock' = clock + AudioTickSeconds
    /\ UNCHANGED <<entry, aVars, tVars, iVars, vVars, jVars>>

AudioNext ==
    \/ AudioValidate
    \/ AudioLoad
    \/ AudioDispatch
    \/ AudioGetResult
    \/ AudioGetRaises
    \/ AudioGetTimeout
    \/ AudioCollected
    \/ AudioReturn
    \/ \E i \in 1..3 : WorkerStart(i)
    \/ \E i \in 1..3 : WorkerFinish(i, "succeeded")
    \/ \E i \in 1..3 : WorkerFinish(i, "failed")
    \/ AudioTick

(***************************************************************************)
(* text.processor.py: constants and inputs                                 *)
(***************************************************************************)
CACHE_TTL == 3600

TEXT_SIZE_LIMIT == 1000000

\* CONFIDENCE_THRESHOLD = 0.75, in hundredths
CONFIDENCE_THRESHOLD == 75

\* the scores of the entities self.entity_model finds in a text
EntityScores == <<74, 75, 99>>

\* the threads that call process_text on the one TextProcessor
Callers == {1, 2}

\* a text_content argument: its value and len(text_content.encode('utf-8'))
Text(v, n) == [kind |-> "str", v |-> v, bytes |-> n]

\* how the caller passes analysis_types (a list, as annotated, or a tuple) and
\* options (left out, None by position, None or a dict by keyword)
TextRequest(text_content, types_kind, options) ==
    [text_content |-> text_content, types_kind |-> types_kind, options |-> options]

TextRequests ==
    { TextRequest(Text("t1", 2), "tuple", "omitted"),
      TextRequest(Text("t1", 2), "tuple", "positional None"),
      TextRequest(Text("t1", 2), "tuple", "keyword dict"),
      TextRequest(Text("t1", 2), "list", "omitted"),
      TextRequest(Text("t2", TEXT_SIZE_LIMIT), "tuple", "omitted"),
      TextRequest(Text("big", TEXT_SIZE_LIMIT + 1), "tuple", "omitted"),
      TextRequest(Text("", 0), "tuple", "omitted") }

\* (analysis_type, content, normalized options): options left out is options=None
Identity(req) ==
    [content |-> req.text_content.v,
     options |-> IF req.options = "keyword dict" THEN "dict" ELSE "None"]

NoCall ==
    [pc |-> "idle",
     req |-> [text_content |-> Text("", 0), types_kind |-> "tuple", options |-> "omitted"],
     prior |-> FALSE, invoked |-> FALSE, key |-> <<>>,
     value |-> NoReport, err |-> "", log |-> <<>>]

(***************************************************************************)
(* text.processor.py: validate_input (lines 35-74)                         *)
(***************************************************************************)
\* lines 45-49: the error raised, or "ok"
validate_text(text_content) ==
    IF ~Truthy(text_content) \/ text_content.kind # "str"
    THEN "ValueError: Invalid text content provided"
    ELSE IF text_content.bytes > TEXT_SIZE_LIMIT
         THEN "ValueError: Text content exceeds size limit"
         ELSE "ok"

(***************************************************************************)
(* text.processor.py: cache_result (lines 76-126)                          *)
(***************************************************************************)
\* line 84, keys.hashkey(args, frozenset(kwargs.items())): frozenset() hashes
\* the keyword values, and the lookup of line 87 hashes the positional ones
Hashable(req) == req.types_kind = "tuple" /\ req.options # "keyword dict"

\* the key is the shape of the call: the positional and the keyword arguments
CacheKey(req) ==
    [args |-> IF req.options = "positional None"
              THEN <<req.text_content.v, "types", "None">>
              ELSE <<req.text_content.v, "types">>,
     kwargs |-> IF req.options = "keyword None" THEN {<<"options", "None">>} ELSE {}]

(***************************************************************************)
(* cachetools.TTLCache(maxsize, ttl), as constructed at line 146.  The     *)
(* cache is the sequence of its entries, least recently used first.        *)
(***************************************************************************)
HasKey(cache, key) == \E i \in 1..Len(cache) : cache[i].key = key

Entry(cache, key) == cache[CHOOSE i \in 1..Len(cache) : cache[i].key = key]

Without(cache, key) == SelectSeq(cache, LAMBDA e : e.key # key)

\* TTLCache.__contains__: present and not expired; the order is untouched
Contains(cache, key, now) == HasKey(cache, key) /\ now < Entry(cache, key).expires

\* mutant of Touched: a read leaves the order of the entries as it was
Touched_NoReorder(cache, key) == cache

\* TTLCache.__getitem__: the entry becomes the most recently used one
Touched(cache, key) ==
    IF HasKey(cache, key) THEN Append(Without(cache, key), Entry(cache, key)) ELSE cache

\* TTLCache.expire(time)
Expire(cache, now) == SelectSeq(cache, LAMBDA e : now < e.expires)

\* Cache.__setitem__ for a new key pops least recently used entries until the
\* new one fits
Evict(cache) ==
    IF Len(cache) + 1 > MaxSize
    THEN SubSeq(cache, Len(cache) + 2 - MaxSize, Len(cache))
    ELSE cache

\* TTLCache.__setitem__
SetItem(cache, key, value, now) ==
    LET live == Expire(cache, now)
        kept == IF HasKey(live, key) THEN Without(live, key) ELSE Evict(live)
    IN  Append(kept, [key |-> key, value |-> value, expires |-> now + CACHE_TTL])

(***************************************************************************)
(* text.processor.py: TextProcessor.process_text behind validate_input and *)
(* cache_result (lines 197-264)                                            *)
(***************************************************************************)
TextIdle ==
    /\ result_cache = <<>>
    /\ tCalls = [c \in Callers |-> NoCall]
    /\ tMade = 0
    /\ tDone = <<>>
    /\ tUses = <<>>

\* the request of an earlier call, and the result it returned at clock 0
WarmRequest == TextRequest(Text("t1", 2), "tuple", "omitted")

WarmValue ==
    [kind |-> "results", content |-> "t1", timestamp |-> 0,
     entities |-> Kept(EntityScores, CONFIDENCE_THRESHOLD)]

\* the processor is new, or it has served WarmRequest just now
TextInit ==
    /\ tCalls = [c \in Callers |-> NoCall]
    /\ tMade = 0
    /\ \/ /\ result_cache = <<>>
          /\ tDone = <<>>
          /\ tUses = <<>>
       \/ /\ result_cache = SetItem(<<>>, CacheKey(WarmRequest), WarmValue, 0)
          /\ tDone = Put(<<>>, Identity(WarmRequest), [at |-> 0, value |-> WarmValue])
          /\ tUses = <<[key |-> CacheKey(WarmRequest), inserted |-> 0]>>

\* the history after a use of key: the key moves to the end, and the keys the
\* cache has dropped leave the history
Used(uses, key, inserted, cache) ==
    SelectSeq(SelectSeq(uses, LAMBDA u : u.key # key)
                  \o <<[key |-> key, inserted |-> inserted]>>,
              LAMBDA u : HasKey(cache, u.key))

UseIndex(uses, key) == (CHOOSE i \in 1..Len(uses) : uses[i].key = key)

\* an exception leaving cache_result.wrapper passes its except clause (lines
\* 115-124) and then the one of validate_input.wrapper (lines 63-72)
TextRaise(call, err, lines) ==
    [call EXCEPT !.pc = "raised", !.err = err,
                 !.log = call.log \o lines \o <<"cache_error", "validation_error">>]

Busy(c) == tCalls[c].pc \in {"hit", "miss", "computed"}

\* the call up to the membership test of line 87
TextCall(c, req) ==
    /\ entry = "process_text"
    /\ ~Busy(c)
    /\ \A d \in Callers : d < c => Busy(d)   \* the first free thread takes the call
    /\ tMade < MaxCalls
    /\ tMade' = tMade + 1
    /\ LET v == validate_text(req.text_content)
           recent == /\ v = "ok"
                     /\ Identity(req) \in DOMAIN tDone
                     /\ clock - tDone[Identity(req)].at < CACHE_TTL
           new == [NoCall EXCEPT !.req = req, !.prior = recent]
       IN  tCalls' = [tCalls EXCEPT ![c] =
              IF v # "ok"
              THEN [new EXCEPT !.pc = "raised", !.err = v, !.log = <<"validation_error">>]
              ELSE IF ~Hashable(req)
              THEN TextRaise([new EXCEPT !.log = <<"validation">>],
                             "TypeError: unhashable type", <<>>)
              ELSE IF Contains(result_cache, CacheKey(req), clock)
              THEN [new EXCEPT !.pc = "hit", !.key = CacheKey(req),
                               !.log = <<"validation", "cache_hit">>]
              ELSE [new EXCEPT !.pc = "miss", !.key = CacheKey(req),
                               !.log = <<"validation">>]]
    /\ UNCHANGED <<entry, clock, aVars, iVars, vVars, jVars, result_cache, tDone, tUses>>

\* line 96: return self.result_cache[cache_key]
TextReadHit(c) ==
    /\ entry = "process_text"
    /\ tCalls[c].pc = "hit"
    /\ LET call == tCalls[c] IN
       /\ result_cache' = Touched(result_cache, call.key)
       /\ IF Contains(result_cache, call.key, clock)
          THEN tCalls' = [tCalls EXCEPT ![c] =
                   [call EXCEPT !.pc = "returned",
                                !.value = Entry(result_cache, call.key).value]]
          ELSE tCalls' = [tCalls EXCEPT ![c] = TextRaise(call, "KeyError", <<>>)]
       /\ tUses' = IF HasKey(result_cache, call.key)
                   THEN Used(tUses, call.key,
                             tUses[UseIndex(tUses, call.key)].inserted, result_cache')
                   ELSE tUses
    /\ UNCHANGED <<entry, clock, aVars, iVars, vVars, jVars, tMade, tDone>>

\* line 99: the body of process_text runs the models (lines 208-264)
TextCompute(c, ok) ==
    /\ entry = "process_text"
    /\ tCalls[c].pc = "miss"
    /\ LET call == [tCalls[c] EXCEPT !.invoked = TRUE] IN
       tCalls' = [tCalls EXCEPT ![c] =
          IF ok
          THEN [call EXCEPT !.pc = "computed",
                            !.value = [kind |-> "results", content |-> call.req.text_content.v,
                                       timestamp |-> clock,
                                       entities |-> Kept(EntityScores, CONFIDENCE_THRESHOLD)],
                            !.log = call.log \o <<"processing_complete">>]
          ELSE TextRaise(call, "BackendError", <<"processing_error">>)]
    /\ UNCHANGED <<entry, clock, aVars, iVars, vVars, jVars, result_cache, tMade, tDone, tUses>>

\* lines 102-113: the result is stored and returned
TextStore(c) ==
    /\ entry = "process_text"
    /\ tCalls[c].pc = "computed"
    /\ LET call == tCalls[c] IN
       /\ result_cache' = SetItem(result_cache, call.key, call.value, clock)
       /\ tCalls' = [tCalls EXCEPT ![c] =
              [call EXCEPT !.pc = "returned", !.log = call.log \o <<"cache_update">>]]
       /\ tDone' = Put(tDone, Identity(call.req), [at |-> clock, value |-> call.value])
       /\ tUses' = Used(tUses, call.key, clock, result_cache')
    /\ UNCHANGED <<entry, clock, aVars, iVars, vVars, jVars, tMade>>

\* line 102 run by two threads at once.  result_cache is a cachetools TTLCache
\* shared by every caller and cache_result takes no lock; TTLCache.__setitem__
\* first removes the expired entries, and two threads that walk the same
\* expired entry both delete it: the second delete raises KeyError, which
\* leaves through the except clause of lines 115-124.  Thread c wins the race.
TextStoreRace(c, d) ==
    /\ entry = "process_text"
    /\ c # d
    /\ tCalls[c].pc = "computed"
    /\ tCalls[d].pc = "computed"
    /\ Expire(result_cache, clock) # result_cache
    /\ LET call == tCalls[c] IN
       /\ result_cache' = SetItem(result_cache, call.key, call.value, clock)
       /\ tCalls' = [tCalls EXCEPT
              ![c] = [call EXCEPT !.pc = "returned", !.log = call.log \o <<"cache_update">>],
              ![d] = TextRaise(tCalls[d], "KeyError", <<>>)]
       /\ tDone' = Put(tDone, Identity(call.req), [at |-> clock, value |-> call.value])
       /\ tUses' = Used(tUses, call.key, clock, result_cache')
    /\ UNCHANGED <<entry, clock, aVars, iVars, vVars, jVars, tMade>>

TextTick ==
    /\ entry = "process_text"
    /\ clock < MaxTextTicks * TextTickSeconds
    /\ clock' = clock + TextTickSeconds
    /\ UNCHANGED <<entry, aVars, tVars, iVars, vVars, jVars>>

TextNext ==
    \/ \E c \in Callers, req \in TextRequests : TextCall(c, req)
    \/ \E c \in Callers : TextReadHit(c)
    \/ \E c \in Callers : TextCompute(c, TRUE)
    \/ \E c \in Callers : TextCompute(c, FALSE)
    \/ \E c \in Callers : TextStore(c)
    \/ \E c \in Callers, d \in Callers : TextStoreRace(c, d)
    \/ TextTick

(***************************************************************************)
(* image.processor.py: main and ImageProcessor.process                     *)
(***************************************************************************)
SUPPORTED_IMAGE_FORMATS ==
    << <<".", "j", "p", "g">>, <<".", "j", "p", "e", "g">>, <<".", "p", "n", "g">>,
       <<".", "b", "m", "p">>, <<".", "t", "i", "f", "f">> >>

MAX_IMAGE_SIZE == 4096

\* MODEL_CONFIGS['OBJECT_DETECTION']['confidence_threshold'] = 0.5, in hundredths
OBJECT_CONFIDENCE_THRESHOLD == 50

\* outputs.scores[0] of the detection model for the image
DetectionScores == {<<49, 50, 90>>}

Max(a, b) == IF a >= b THEN a ELSE b

\* round(n / d) for positive n and d
Round(n, d) == (2 * n + d) \div (2 * d)

Size(h, w) == [height |-> h, width |-> w]

NoImage == Size(0, 0)

ImageSizes == {Size(100, 200), Size(4096, 4096), Size(4097, 100), Size(4096, 8192)}

ImageRequests ==
    [evidence_id : EvidenceIds, file_path : FilePaths,
     analysis_types : {{"OBJECT_DETECTION"}, {"object_detection", "ocr"}},
     options : {{"object_detection", "ocr"}, {"ocr"}, {}},
     readable : BOOLEAN,   \* whether cv2.imread decodes the file
     size : ImageSizes,    \* image.shape[:2] of the decoded file
     scores : DetectionScores]

ImageIdle ==
    /\ iReq = [evidence_id |-> None, file_path |-> <<>>, analysis_types |-> {},
               options |-> {}, readable |-> FALSE, size |-> NoImage, scores |-> <<>>]
    /\ iPc = "IDLE"
    /\ iModels = {}
    /\ iImage = NoImage
    /\ iResults = NoReport
    /\ iOut = NoReport
    /\ iLog = <<>>

ImageInit ==
    /\ iReq \in ImageRequests
    /\ iPc = "CALLED"
    /\ iModels = {}
    /\ iImage = NoImage
    /\ iResults = NoReport
    /\ iOut = NoReport
    /\ iLog = <<>>

\* main, lines 200-202
validate_main(evidence_id, file_path) ==
    IF ~Truthy(evidence_id) \/ file_path = <<>>
    THEN "ValueError: Evidence ID and file path are required"
    ELSE "ok"

\* performance_tracker.wrapper, lines 57-63: the line it logs when the wrapped
\* function has returned; it has no except clause
CompletedLine(who) ==
    [kind |-> "info", op |-> who, status |-> "completed", evidence_id |-> None]

\* an exception leaving main passes performance_tracker, which records
\* nothing, and error_handler (lines 45-53), which logs a plain error line
ImageRaise(err) ==
    /\ iPc' = "RAISED"
    /\ iOut' = [kind |-> "raised", error |-> err]
    /\ iLog' = Append(iLog, ErrorLine("main"))

\* an exception leaving ImageProcessor.process is first logged by its except
\* clause (lines 193-195)
ProcessRaise(err, lines) ==
    /\ iPc' = "RAISED"
    /\ iOut' = [kind |-> "raised", error |-> err]
    /\ iLog' = iLog \o lines \o <<ErrorLine("process"), ErrorLine("main")>>

ImageMainValidate ==
    /\ entry = "image_main"
    /\ iPc = "CALLED"
    /\ LET v == validate_main(iReq.evidence_id, iReq.file_path) IN
       IF v = "ok"
       THEN iPc' = "VALIDATED" /\ iOut' = iOut /\ iLog' = iLog
       ELSE ImageRaise(v)
    /\ UNCHANGED <<entry, clock, aVars, tVars, vVars, jVars, iReq, iModels, iImage, iResults>>

\* _initialize_models, lines 96-108: the models dict is keyed in lower case
LoadedModels(analysis_types) ==
    (IF "OBJECT_DETECTION" \in analysis_types THEN {"object_detection"} ELSE {})
    \cup (IF "FACE_DETECTION" \in analysis_types THEN {"face_detection"} ELSE {})

\* main, line 205: ImageProcessor(analysis_types)
ImageConstruct ==
    /\ entry = "image_main"
    /\ iPc = "VALIDATED"
    /\ iModels' = LoadedModels(iReq.analysis_types)
    /\ iPc' = "CONSTRUCTED"
    /\ UNCHANGED <<entry, clock, aVars, tVars, vVars, jVars, iReq, iImage, iResults, iOut, iLog>>

\* mutant of Resized: the scale is taken from the smaller side
Resized_BySmallerSide(size) ==
    LET m == Max(size.height, size.width)
        n == Min(size.height, size.width) IN
    IF m > MAX_IMAGE_SIZE
    THEN Size(Round(size.height * MAX_IMAGE_SIZE, n), Round(size.width * MAX_IMAGE_SIZE, n))
    ELSE size

\* process, lines 163-166: an image larger than MAX_IMAGE_SIZE is scaled down
Resized(size) ==
    LET m == Max(size.height, size.width) IN
    IF m > MAX_IMAGE_SIZE
    THEN Size(Round(size.height * MAX_IMAGE_SIZE, m), Round(size.width * MAX_IMAGE_SIZE, m))
    ELSE size

\* process, lines 158-166
ImageLoad ==
    /\ entry = "image_main"
    /\ iPc = "CONSTRUCTED"
    /\ IF ~iReq.readable
       THEN ProcessRaise("ValueError: Failed to load image", <<>>) /\ iImage' = iImage
       ELSE iPc' = "LOADED" /\ iImage' = Resized(iReq.size) /\ iOut' = iOut /\ iLog' = iLog
    /\ UNCHANGED <<entry, clock, aVars, tVars, vVars, jVars, iReq, iModels, iResults>>

\* process, lines 168-191: detect_objects reads self.models['object_detection']
\* (line 116); process_ocr may raise
ImageAnalyse(ocr_ok) ==
    /\ entry = "image_main"
    /\ iPc = "LOADED"
    /\ IF "object_detection" \in iReq.options /\ "object_detection" \notin iModels
       THEN ProcessRaise("KeyError: 'object_detection'", <<>>) /\ iResults' = iResults
       ELSE IF "ocr" \in iReq.options /\ ~ocr_ok
       THEN ProcessRaise("OcrError", <<ErrorLine("process_ocr")>>) /\ iResults' = iResults
       ELSE /\ iPc' = "PROCESSED"
            /\ iOut' = iOut
            /\ iLog' = Append(iLog, CompletedLine("process"))
            /\ iResults' =
                 [kind |-> "results",
                  image_size |-> iReq.size,     \* metadata: the size as loaded
                  analysed_size |-> iImage,     \* the size of the image the analyses saw
                  analysis |-> {"objects" : x \in iReq.options \cap {"object_detection"}}
                               \cup {"ocr" : x \in iReq.options \cap {"ocr"}},
                  \* detect_objects, lines 118-131: the 'confidence' of each result
                  objects |-> IF "object_detection" \in iReq.options
                              THEN Kept(iReq.scores, OBJECT_CONFIDENCE_THRESHOLD)
                              ELSE <<>>]
    /\ UNCHANGED <<entry, clock, aVars, tVars, vVars, jVars, iReq, iModels, iImage>>

\* main, lines 211-214: line 212 reads the name datetime, which the module
\* never imports
ImageMainFinish ==
    /\ entry = "image_main"
    /\ iPc = "PROCESSED"
    /\ ImageRaise("NameError: name 'datetime' is not defined")
    /\ UNCHANGED <<entry, clock, aVars, tVars, vVars, jVars, iReq, iModels, iImage, iResults>>

ImageNext ==
    \/ ImageMainValidate
    \/ ImageConstruct
    \/ ImageLoad
    \/ ImageAnalyse(TRUE)
    \/ ImageAnalyse(FALSE)
    \/ ImageMainFinish

(***************************************************************************)
(* video.processor.py: VideoProcessor                                      *)
(***************************************************************************)
SUPPORTED_ANALYSIS_TYPES == {"OBJECT_DETECTION", "FACE_DETECTION", "SCENE_RECOGNITION", "OCR"}

\* the keys of MODEL_PATHS (lines 15-19)
MODEL_PATHS == {"object_detection", "face_detection", "scene_recognition"}

NoHash == "none"

VideoRequests ==
    [evidence_id : {Str("E1"), Str("")},
     analysis_types : {<<>>, <<"OBJECT_DETECTION">>, <<"ocr", "OCR">>},
     readable : BOOLEAN,            \* whether open(file_path, "rb") succeeds
     opens : BOOLEAN,               \* cap.isOpened()
     total_frames : 0..MaxFrames,   \* CAP_PROP_FRAME_COUNT
     good_frames : 0..MaxFrames,    \* the number of frames cap.read() delivers
     fps : {0, 30},
     batch_size : 1..MaxBatch]

VideoIdle ==
    /\ file_hash = NoHash
    /\ vReq = [evidence_id |-> None, analysis_types |-> <<>>, readable |-> FALSE,
               opens |-> FALSE, total_frames |-> 0, good_frames |-> 0, fps |-> 0,
               batch_size |-> 1]
    /\ vPc = "IDLE"
    /\ frame_idx = 0
    /\ frame_batch = <<>>
    /\ vBatches = <<>>
    /\ frames_processed = 0
    /\ vOut = NoReport

VideoInit ==
    /\ file_hash = NoHash
    /\ vReq \in VideoRequests
    /\ vPc = "NEW"
    /\ frame_idx = 0
    /\ frame_batch = <<>>
    /\ vBatches = <<>>
    /\ frames_processed = 0
    /\ vOut = NoReport

\* line 57
SupportedTypes(analysis_types) ==
    SelectSeq(analysis_types, LAMBDA t : t \in SUPPORTED_ANALYSIS_TYPES)

\* _load_models, lines 129-135: a model is loaded for a type that is a key of
\* MODEL_PATHS
VideoModels(analysis_types) ==
    {t \in Range(SupportedTypes(analysis_types)) : t \in MODEL_PATHS}

VideoRaise(err) ==
    /\ vPc' = "RAISED"
    /\ vOut' = [kind |-> "raised", error |-> err]

\* __init__, lines 55-86: _calculate_file_hash opens and reads the file
VideoConstruct ==
    /\ entry = "process_video"
    /\ vPc = "NEW"
    /\ IF ~vReq.readable
       THEN VideoRaise("IOError: cannot open file") /\ file_hash' = file_hash
       ELSE vPc' = "CONSTRUCTED" /\ file_hash' = "sha256 of the file" /\ vOut' = vOut
    /\ UNCHANGED <<entry, clock, aVars, tVars, iVars, jVars, vReq, frame_idx, frame_batch,
                   vBatches, frames_processed>>

\* process_video, lines 159-183
VideoOpen ==
    /\ entry = "process_video"
    /\ vPc = "CONSTRUCTED"
    /\ IF ~vReq.opens
       THEN VideoRaise("ValueError: Failed to open video file")
       ELSE IF vReq.fps = 0
       THEN VideoRaise("ZeroDivisionError")
       ELSE vPc' = "READING" /\ vOut' = vOut
    /\ UNCHANGED <<entry, clock, aVars, tVars, iVars, jVars, file_hash, vReq, frame_idx,
                   frame_batch, vBatches, frames_processed>>

\* lines 193: the batch is full, or this is the last frame the file reports
BatchDue(batch, idx) == Len(batch) = vReq.batch_size \/ idx = vReq.total_frames - 1

\* one iteration of the loop of lines 185-208 in which cap.read() delivers a
\* frame; detect_objects reads self.models["OBJECT_DETECTION"] (line 250)
VideoReadFrame ==
    /\ entry = "process_video"
    /\ vPc = "READING"
    /\ frame_idx < vReq.total_frames
    /\ frame_idx < vReq.good_frames
    /\ LET batch == Append(frame_batch, frame_idx) IN
       IF ~BatchDue(batch, frame_idx)
       THEN /\ frame_batch' = batch
            /\ frame_idx' = frame_idx + 1
            /\ UNCHANGED <<vPc, vOut, vBatches, frames_processed>>
       ELSE IF "OBJECT_DETECTION" \in Range(SupportedTypes(vReq.analysis_types))
               /\ "OBJECT_DETECTION" \notin VideoModels(vReq.analysis_types)
       THEN /\ VideoRaise("KeyError: 'OBJECT_DETECTION'")
            /\ frame_batch' = batch
            /\ UNCHANGED <<frame_idx, vBatches, frames_processed>>
       ELSE /\ vBatches' = Append(vBatches, batch)
            /\ frames_processed' = frames_processed + Len(batch)
            /\ frame_batch' = <<>>
            /\ frame_idx' = frame_idx + 1
            /\ UNCHANGED <<vPc, vOut>>
    /\ UNCHANGED <<entry, clock, aVars, tVars, iVars, jVars, file_hash, vReq>>

\* the loop ends (range exhausted, or cap.read() fails and line 188 breaks) and
\* lines 210-225 return the results
VideoReturn ==
    /\ entry = "process_video"
    /\ vPc = "READING"
    /\ frame_idx >= vReq.total_frames \/ frame_idx >= vReq.good_frames
    /\ vPc' = "RETURNED"
    /\ vOut' = [kind |-> "results", evidence_id |-> vReq.evidence_id,
                file_hash |-> file_hash, frames_processed |-> frames_processed]
    /\ UNCHANGED <<entry, clock, aVars, tVars, iVars, jVars, file_hash, vReq, frame_idx,
                   frame_batch, vBatches, frames_processed>>

VideoNext ==
    \/ VideoConstruct
    \/ VideoOpen
    \/ VideoReadFrame
    \/ VideoReturn

(***************************************************************************)
(* audio.processor.py: AudioProcessor.transcribe_audio (lines 169-216)     *)
(***************************************************************************)
NoOutcome == [kind |-> "none", value |-> ""]

Returns(v) == [kind |-> "return", value |-> v]

Raises(e) == [kind |-> "raise", value |-> e]

TranscribeIdle ==
    /\ jPc = "IDLE"
    /\ jJob = "absent"
    /\ jCalls = <<>>
    /\ jPending = NoOutcome
    /\ jOut = NoOutcome
    /\ jLog = <<>>

TranscribeInit ==
    /\ jPc = "START"
    /\ jJob \in {"absent", "IN_PROGRESS"}   \* a job of the same name may exist already
    /\ jCalls = <<>>
    /\ jPending = NoOutcome
    /\ jOut = NoOutcome
    /\ jLog = <<>>

\* an exception in the try block: logged by the except clause (lines 207-209),
\* then the finally clause runs
TranscribeExcept(e) ==
    /\ jPending' = Raises(e)
    /\ jLog' = Append(jLog, "Transcription error")
    /\ jPc' = "FINALLY"

\* lines 176-187: start_transcription_job; it fails when the call is refused
\* or a job of this name exists
TranscribeStart(accepted) ==
    /\ entry = "transcribe_audio"
    /\ jPc = "START"
    /\ jCalls' = Append(jCalls, "start_transcription_job")
    /\ IF accepted /\ jJob = "absent"
       THEN /\ jJob' = "IN_PROGRESS"
            /\ jPc' = "POLL"
            /\ UNCHANGED <<jPending, jLog>>
       ELSE /\ TranscribeExcept("StartError")
            /\ jJob' = jJob
    /\ UNCHANGED <<entry, clock, aVars, tVars, iVars, vVars, jOut>>

\* the service works on the job
JobProgress(status) ==
    /\ entry = "transcribe_audio"
    /\ jJob = "IN_PROGRESS"
    /\ jJob' = status
    /\ UNCHANGED <<entry, clock, aVars, tVars, iVars, vVars, jPc, jCalls, jPending, jOut, jLog>>

\* mutant of TranscribePoll: the module imports time, so line 195 sleeps and the
\* loop polls again while the job is in progress
TranscribePoll_Sleeps(answered) ==
    /\ entry = "transcribe_audio"
    /\ jPc = "POLL"
    /\ jCalls' = Append(jCalls, "get_transcription_job")
    /\ IF ~answered \/ jJob = "absent"
       THEN TranscribeExcept("PollError")
       ELSE IF jJob = "COMPLETED"
       THEN jPending' = Returns("transcript") /\ jPc' = "FINALLY" /\ jLog' = jLog
       ELSE IF jJob = "FAILED"
       THEN TranscribeExcept("Transcription job failed")
       ELSE UNCHANGED <<jPending, jPc, jLog>>
    /\ UNCHANGED <<entry, clock, aVars, tVars, iVars, vVars, jJob, jOut>>

\* one iteration of the loop of lines 190-195 and, when it breaks, lines
\* 197-205.  Line 195 reads the name time, which the module never imports.
TranscribePoll(answered) ==
    /\ entry = "transcribe_audio"
    /\ jPc = "POLL"
    /\ jCalls' = Append(jCalls, "get_transcription_job")
    /\ IF ~answered \/ jJob = "absent"
       THEN TranscribeExcept("PollError")
       ELSE IF jJob = "COMPLETED"
       THEN jPending' = Returns("transcript") /\ jPc' = "FINALLY" /\ jLog' = jLog
       ELSE IF jJob = "FAILED"
       THEN TranscribeExcept("Transcription job failed")
       ELSE TranscribeExcept("NameError: name 'time' is not defined")
    /\ UNCHANGED <<entry, clock, aVars, tVars, iVars, vVars, jJob, jOut>>

\* mutant of TranscribeCleanup: the except clause of the cleanup is missing, so
\* an exception of delete_transcription_job replaces the pending outcome
TranscribeCleanup_Propagates(deleted) ==
    /\ entry = "transcribe_audio"
    /\ jPc = "FINALLY"
    /\ jCalls' = Append(jCalls, "delete_transcription_job")
    /\ jJob' = IF deleted THEN "absent" ELSE jJob
    /\ jOut' = IF deleted THEN jPending ELSE Raises("CleanupError")
    /\ jPc' = IF deleted /\ jPending.kind = "return" THEN "RETURNED" ELSE "RAISED"
    /\ jLog' = jLog \o (IF deleted /\ jPending.kind = "return" THEN <<>>
                        ELSE <<"Error in transcribe_audio">>)
    /\ UNCHANGED <<entry, clock, aVars, tVars, iVars, vVars, jPending>>

\* the finally clause, lines 210-216: an exception of delete_transcription_job
\* is logged and dropped; then the pending return or raise completes, and
\* error_handler (lines 60-68) logs an exception on its way out
TranscribeCleanup(deleted) ==
    /\ entry = "transcribe_audio"
    /\ jPc = "FINALLY"
    /\ jCalls' = Append(jCalls, "delete_transcription_job")
    /\ jJob' = IF deleted THEN "absent" ELSE jJob
    /\ jOut' = jPending
    /\ jPc' = IF jPending.kind = "return" THEN "RETURNED" ELSE "RAISED"
    /\ jLog' = jLog \o (IF deleted /\ jJob # "absent" THEN <<>> ELSE <<"Cleanup error">>)
                    \o (IF jPending.kind = "raise" THEN <<"Error in transcribe_audio">> ELSE <<>>)
    /\ UNCHANGED <<entry, clock, aVars, tVars, iVars, vVars, jPending>>

TranscribeNext ==
    \/ TranscribeStart(TRUE)
    \/ TranscribeStart(FALSE)
    \/ JobProgress("COMPLETED")
    \/ JobProgress("FAILED")
    \/ TranscribePoll(TRUE)
    \/ TranscribePoll(FALSE)
    \/ TranscribeCleanup(TRUE)
    \/ TranscribeCleanup(FALSE)

(***************************************************************************)
(* Init, Next, Spec                                                        *)
(***************************************************************************)
Init ==
    /\ clock = 0
    /\ \/ entry = "process_audio" /\ AudioInit /\ TextIdle /\ ImageIdle /\ VideoIdle /\ TranscribeIdle
       \/ entry = "process_text" /\ AudioIdle /\ TextInit /\ ImageIdle /\ VideoIdle /\ TranscribeIdle
       \/ entry = "image_main" /\ AudioIdle /\ TextIdle /\ ImageInit /\ VideoIdle /\ TranscribeIdle
       \/ entry = "process_video" /\ AudioIdle /\ TextIdle /\ ImageIdle /\ VideoInit /\ TranscribeIdle
       \/ entry = "transcribe_audio" /\ AudioIdle /\ TextIdle /\ ImageIdle /\ VideoIdle /\ TranscribeInit

Next ==
    \/ AudioNext
    \/ TextNext
    \/ ImageNext
    \/ VideoNext
    \/ TranscribeNext

Spec == Init /\ [][Next]_vars

\* the steps of transcribe_audio itself; the progress of the job at the
\* service is not among them
TranscribeSteps ==
    \/ TranscribeStart(TRUE)
    \/ TranscribeStart(FALSE)
    \/ TranscribePoll(TRUE)
    \/ TranscribePoll(FALSE)
    \/ TranscribeCleanup(TRUE)
    \/ TranscribeCleanup(FALSE)

\* the thread that runs transcribe_audio keeps running: every call it makes
\* on the client returns or raises
LiveSpec == Spec /\ WF_vars(TranscribeSteps)

(***************************************************************************)
(* Properties                                                              *)
(***************************************************************************)
\* the custody and audit records among the logging records
CustodyEvents(log) == SelectSeq(log, LAMBDA r : r.kind \in {"custody", "audit"})

\* C1: in every run of process_audio, each state transition of the request
\* has emitted exactly one custody event: at every moment there are as many
\* custody events as transitions made.
C1_OneEventPerTransition ==
    entry = "process_audio" => Len(CustodyEvents(aLog)) = Len(aTrace) - 1

\* C2: the failure of one dispatched task is never thrown as the failure of
\* the whole process_audio request.
C2_FailureIsolated ==
    entry = "process_audio" => ~(aOut.kind = "raised" /\ aOut.error = "TaskError")

\* C3: when process_audio ends on a timeout, none of the request's tasks is
\* left pending or running: the tasks not yet completed have been cancelled.
C3_TimeoutCancelsTasks ==
    (entry = "process_audio" /\ aOut.kind = "raised" /\ aOut.error = "TimeoutError")
        => \A i \in 1..Len(aTasks) : aTasks[i].status \notin {"pending", "running"}

\* C4: a task's timeout runs from its own start: no task that ran longer than
\* TIMEOUT_SECONDS is collected as succeeded.
C4_OwnTimeout ==
    entry = "process_audio" =>
        \A i \in 1..Len(aTasks) :
            (i < aIdx /\ aTasks[i].status = "succeeded") => aTasks[i].ran <= TIMEOUT_SECONDS

\* an analysis of an evidence file has been dispatched or run
AnalysisRun ==
    \/ entry = "process_audio" /\ aTasks # <<>>
    \/ entry = "image_main" /\ iResults.kind = "results"
    \/ entry = "process_video" /\ vBatches # <<>>

\* a report on an evidence file has been produced
ReportProduced ==
    \/ entry = "process_audio" /\ aOut.kind = "report"
    \/ entry = "image_main" /\ iResults.kind = "results"
    \/ entry = "process_video" /\ vOut.kind = "results"

\* C5: for every modality, no analysis is dispatched or run and no report is
\* produced unless the integrity hash of the evidence file has been computed.
C5_HashBeforeAnalysis ==
    (AnalysisRun \/ ReportProduced) => file_hash # NoHash

\* the request is one the validator must reject: evidence_id empty or not a
\* string, or file_path without an extension of the modality's supported set
MustReject(evidence_id, file_path, formats) ==
    \/ ~Truthy(evidence_id)
    \/ evidence_id.kind # "str"
    \/ ~HasExtension(file_path, formats)

\* C6: a request that must be rejected is rejected before any processing
\* begins: its file is never loaded and nothing is dispatched or analysed.
C6_InvalidRejected ==
    /\ (entry = "process_audio"
        /\ MustReject(aReq.evidence_id, aReq.file_path, SUPPORTED_FORMATS))
            => aPc \in {"RECEIVED", "FAILED"} /\ Len(aTrace) <= 2 /\ aTasks = <<>>
    /\ (entry = "image_main"
        /\ MustReject(iReq.evidence_id, iReq.file_path, SUPPORTED_IMAGE_FORMATS))
            => iPc \notin {"LOADED", "PROCESSED"} /\ iImage = NoImage /\ iResults = NoReport

OverLimitText(call) == call.req.text_content.bytes > TEXT_SIZE_LIMIT

OverLimitImage == Max(iReq.size.height, iReq.size.width) > MAX_IMAGE_SIZE

\* C7 as claimed: for every modality, an input over the modality's ceiling
\* yields no analysis result, partial or adjusted.
C7_OverLimitFails ==
    /\ (entry = "process_audio" /\ aReq.duration > MAX_AUDIO_DURATION)
            => aOut.kind # "report"
    /\ (entry = "process_text")
            => \A c \in Callers : OverLimitText(tCalls[c]) => tCalls[c].pc # "returned"
    /\ (entry = "image_main" /\ OverLimitImage)
            => iResults.kind # "results"

\* C7 as amended: an audio file over MAX_AUDIO_DURATION and a text over the
\* byte limit fail the request before anything is dispatched or computed; an
\* image over MAX_IMAGE_SIZE is not rejected: what ImageProcessor.process
\* analyses is the image scaled down so that its larger side is
\* MAX_IMAGE_SIZE, and the metadata report the size as loaded.
C7_OverLimitFailsOrScales ==
    /\ (entry = "process_audio" /\ aReq.duration > MAX_AUDIO_DURATION)
            => aOut.kind # "report" /\ aTasks = <<>> /\ aPc \in {"RECEIVED", "VALIDATED", "FAILED"}
    /\ (entry = "process_text")
            => \A c \in Callers :
                  OverLimitText(tCalls[c])
                      => tCalls[c].pc \in {"idle", "raised"} /\ ~tCalls[c].invoked
    /\ (entry = "image_main" /\ OverLimitImage /\ iPc \in {"LOADED", "PROCESSED"})
            => Max(iImage.height, iImage.width) = MAX_IMAGE_SIZE
    /\ (entry = "image_main" /\ OverLimitImage /\ iResults.kind = "results")
            => /\ Max(iResults.analysed_size.height, iResults.analysed_size.width)
                    = MAX_IMAGE_SIZE
               /\ iResults.image_size = iReq.size

\* C7, witness: process() has returned results for an image over the limit
C7_Witness ==
    entry = "image_main" /\ OverLimitImage /\ iResults.kind = "results"

\* C8: a process_text call that arrives within CACHE_TTL of the successful
\* completion of a call with the same (analysis types, content, normalized
\* options) returns its result without running the models a second time.
C8_SecondCallIsHit ==
    entry = "process_text" =>
        \A c \in Callers :
            (tCalls[c].prior /\ tCalls[c].pc = "returned") => ~tCalls[c].invoked

\* C9: process_text raises only when validation rejects the input or the
\* analysis itself fails: a failure of the cache is never what the caller gets.
C9_CacheFailureNotFatal ==
    entry = "process_text" =>
        \A c \in Callers :
            tCalls[c].pc = "raised"
                => tCalls[c].err \in {"ValueError: Invalid text content provided",
                                      "ValueError: Text content exceeds size limit",
                                      "BackendError"}

Deletes == SelectSeq(jCalls, LAMBDA call : call = "delete_transcription_job")

\* C10: transcribe_audio leaves only after exactly one delete_transcription_job,
\* made as its last call on the client, after the outcome (return value or
\* exception) was determined; what it returns or raises is that outcome,
\* whether or not the delete failed; before the outcome is known no delete is
\* made.
C10_DeleteOnEveryExit ==
    entry = "transcribe_audio" =>
        /\ jPc \in {"RETURNED", "RAISED"}
              => /\ Len(Deletes) = 1
                 /\ jCalls[Len(jCalls)] = "delete_transcription_job"
                 /\ jPending # NoOutcome
                 /\ jOut = jPending
                 /\ (jPc = "RETURNED") = (jOut.kind = "return")
        /\ jPc \in {"START", "POLL", "FINALLY"}
              => Len(Deletes) = 0 /\ jOut = NoOutcome
        /\ jPc = "FINALLY" => jPending # NoOutcome

\* C10, witness: the job completed, the delete failed, the transcript is returned
C10_Witness ==
    /\ entry = "transcribe_audio"
    /\ jPc = "RETURNED"
    /\ jLog = <<"Cleanup error">>
    /\ jOut = Returns("transcript")

\* the custody and audit records with status error among the logging records
ErrorEvents(log) == SelectSeq(CustodyEvents(log), LAMBDA r : r.status = "error")

\* C11: no failure reaches the caller of process_audio, of the image main or
\* of process_text unless an error event of the request was recorded first:
\* a custody or audit record with status error, or for process_text the
\* structured validation_error event.
C11_ErrorsRecorded ==
    /\ (entry = "process_audio" /\ aOut.kind = "raised") => ErrorEvents(aLog) # <<>>
    /\ (entry = "process_text")
            => \A c \in Callers :
                  tCalls[c].pc = "raised" => "validation_error" \in Range(tCalls[c].log)
    /\ (entry = "image_main" /\ iOut.kind = "raised") => ErrorEvents(iLog) # <<>>

\* C12: at no time are two GPU-bound analysis tasks running at once.
C12_GpuSerialized ==
    entry = "process_audio"
        => Cardinality({i \in Running : aTasks[i].type \in GpuBound}) <= 1

\* C13: whatever the interleaving of two callers that missed on the same key,
\* each of them whose models produced a result returns it (duplicate
\* computation is the only anomaly), and every entry of the cache holds a
\* result computed for the content its key names.
C13_RaceOnlyDuplicates ==
    entry = "process_text" =>
        /\ \A c \in Callers, d \in Callers :
              (/\ c # d
               /\ tCalls[c].invoked /\ tCalls[c].value # NoReport
               /\ tCalls[d].invoked /\ tCalls[d].key = tCalls[c].key)
                  => tCalls[c].pc \in {"computed", "returned"}
        /\ \A i \in 1..Len(result_cache) :
              /\ result_cache[i].value.kind = "results"
              /\ result_cache[i].value.content = result_cache[i].key.args[1]

\* the keys of a sequence of cache entries or of uses
Keys(seq) == {seq[i].key : i \in 1..Len(seq)}

\* the uses whose entry was inserted less than CACHE_TTL ago, by last use
LiveUses == SelectSeq(tUses, LAMBDA u : clock - u.inserted < CACHE_TTL)

\* caller c returns the entry of its key from the cache
HitReturns(c) == tCalls[c].pc = "hit" /\ tCalls'[c].pc = "returned"

\* caller c inserts the result it computed
Inserts(c) == tCalls[c].pc = "computed" /\ tCalls'[c].pc = "returned"

\* what an insertion of key must leave in a cache of the given capacity: the
\* live entries and the new one, less the least recently used live entry when
\* the cache is full of live entries of other keys
KeysAfterInsert(key, capacity) ==
    LET others == SelectSeq(LiveUses, LAMBDA u : u.key # key)
    IN  IF Len(others) >= capacity
        THEN (Keys(others) \ {others[1].key}) \cup {key}
        ELSE Keys(others) \cup {key}

C14_Capacity == Len(result_cache) <= MaxSize

C14_Steps ==
    \A c \in Callers :
        /\ HitReturns(c)
              => /\ tCalls[c].key \in Keys(LiveUses)
                 /\ tCalls'[c].value = Entry(result_cache, tCalls[c].key).value
        /\ Inserts(c)
              => Keys(Expire(result_cache', clock)) = KeysAfterInsert(tCalls[c].key, MaxSize)

\* C14: the cache never holds more than its capacity; a hit returns only an
\* entry inserted less than CACHE_TTL ago, however often it was read since;
\* and an insertion keeps every live entry, except that into a cache full of
\* live entries it drops exactly the least recently used one.
C14_CapacityTtlLru == [](entry = "process_text" => C14_Capacity) /\ [][C14_Steps]_vars

\* C14, witness: the cache was full, with the oldest entry read after the
\* other was inserted, and a third key was inserted within the TTL: the entry
\* of t2 is gone and the older, more recently read entry of WarmRequest is kept
C14_Witness ==
    /\ entry = "process_text"
    /\ clock = 0
    /\ Len(result_cache) = MaxSize
    /\ [content |-> "t2", options |-> "None"] \in DOMAIN tDone
    /\ "t2" \notin {result_cache[i].value.content : i \in 1..Len(result_cache)}
    /\ CacheKey(WarmRequest) \in Keys(result_cache)

\* the place of a position of process_audio in the order of the request's
\* states; LOADED is the position between VALIDATED and DISPATCHED
Rank(pc) ==
    CASE pc = "RECEIVED" -> 1 [] pc = "VALIDATED" -> 2 [] pc = "LOADED" -> 3
      [] pc = "DISPATCHED" -> 4 [] pc = "AGGREGATING" -> 5 [] pc = "COMPLETE" -> 6
      [] OTHER -> 0

\* the index of the first record of the log that satisfies Test, or 0
FirstIndex(log, Test(_)) ==
    IF \E i \in 1..Len(log) : Test(log[i])
    THEN CHOOSE i \in 1..Len(log) : Test(log[i]) /\ \A j \in 1..(i - 1) : ~Test(log[j])
    ELSE 0

IsStarted(r) == r.kind = "custody" /\ r.status = "started"

IsClosing(r) == r.kind = "audit"

\* C15: process_audio starts at RECEIVED and moves one position forward at a
\* time or to FAILED, and nothing follows COMPLETE or FAILED; its 'started'
\* custody record is written only once validation has passed and before
\* anything is dispatched, and its closing audit record is the last record,
\* written when the call ends; process_text runs its models only after its
\* validation passed and was logged, and updates the cache only after them.
C15_FixedOrder ==
    /\ entry = "process_audio" =>
          /\ aTrace[1] = "RECEIVED"
          /\ \A i \in 1..(Len(aTrace) - 1) :
                /\ aTrace[i] \notin {"COMPLETE", "FAILED"}
                /\ aTrace[i + 1] = "FAILED" \/ Rank(aTrace[i + 1]) = Rank(aTrace[i]) + 1
          /\ FirstIndex(aLog, IsStarted) # 0 <=> "VALIDATED" \in Range(aTrace)
          /\ aTasks # <<>> => FirstIndex(aLog, IsStarted) = 1
          /\ FirstIndex(aLog, IsClosing) # 0
                <=> aPc \in {"COMPLETE", "FAILED"}
          /\ FirstIndex(aLog, IsClosing) \in {0, Len(aLog)}
    /\ entry = "process_text" =>
          \A c \in Callers :
              LET call == tCalls[c] IN
              /\ (call.invoked \/ call.key # <<>>)
                    => validate_text(call.req.text_content) = "ok" /\ call.log[1] = "validation"
              /\ "cache_update" \in Range(call.log)
                    => /\ call.invoked
                       /\ call.log = <<"validation", "processing_complete", "cache_update">>

\* C15, witness: a process_audio call that dispatched tasks has completed
C15_Witness ==
    entry = "process_audio" /\ aPc = "COMPLETE" /\ aTasks # <<>> /\ Len(aLog) = 2

\* C16: when process_audio builds and returns its report, every task it
\* dispatched has been collected by a get and has ended: none is pending or
\* running.
C16_ReportFromTerminalTasks ==
    (entry = "process_audio" /\ aPc \in {"AGGREGATING", "COMPLETE"})
        => /\ aIdx = Len(aTasks) + 1
           /\ \A i \in 1..Len(aTasks) : aTasks[i].status \in {"succeeded", "failed"}
           /\ aPc = "COMPLETE" => aOut.kind = "report"

\* C16, witness: a report built from three collected tasks
C16_Witness ==
    /\ entry = "process_audio"
    /\ aOut.kind = "report"
    /\ Len(aTasks) = 3
    /\ \A i \in 1..3 : aTasks[i].status = "succeeded"

\* C17: of the scores a backend produced, those at or above the threshold are
\* in the detected set of the report, and those below it are not in the
\* detected set but are still to be found in the report.  The reports of the
\* code hold no score outside the detected set: results['analysis']['objects']
\* of the image report and results['entities'] of the text report.
C17_ThresholdKeepsRawScore ==
    /\ (entry = "image_main" /\ iResults.kind = "results" /\ "objects" \in iResults.analysis)
          => \A i \in 1..Len(iReq.scores) :
                LET x == iReq.scores[i] IN
                /\ x >= OBJECT_CONFIDENCE_THRESHOLD => x \in Range(iResults.objects)
                /\ x < OBJECT_CONFIDENCE_THRESHOLD
                      => x \notin Range(Kept(iResults.objects, OBJECT_CONFIDENCE_THRESHOLD))
                         /\ x \in Range(iResults.objects)
    /\ entry = "process_text"
          => \A c \in Callers :
                (tCalls[c].pc = "returned" /\ tCalls[c].invoked)
                    => \A i \in 1..Len(EntityScores) :
                          LET x == EntityScores[i] IN
                          /\ x >= CONFIDENCE_THRESHOLD => x \in Range(tCalls[c].value.entities)
                          /\ x < CONFIDENCE_THRESHOLD => x \in Range(tCalls[c].value.entities)

Polls == SelectSeq(jCalls, LAMBDA call : call = "get_transcription_job")

RecognisedRequested(analysis_types) ==
    {t \in Range(analysis_types) : t \in Range(AudioTaskOrder)}

\* C19: in every report of process_audio the results mapping has exactly one
\* key per recognised requested analysis type, and the value under a key is
\* the output of the task that ran that same analysis type.
C19_ResultsKeyedByType ==
    (entry = "process_audio" /\ aOut.kind = "report")
        => /\ DOMAIN aOut.results = RecognisedRequested(aReq.analysis_types)
           /\ \A k \in DOMAIN aOut.results : aOut.results[k].output_of = k

\* C20: every custody and audit record emitted while process_audio handles
\* evidence item E (a non-empty string) carries evidence_id = E, however the
\* caller passed it.
C20_RecordsCarryEvidenceId ==
    (entry = "process_audio" /\ aReq.evidence_id.kind = "str" /\ Truthy(aReq.evidence_id))
        => \A i \in 1..Len(CustodyEvents(aLog)) :
              CustodyEvents(aLog)[i].evidence_id = aReq.evidence_id

\* the batches handed to analysis that hold frame i
BatchesHolding(i) == {b \in 1..Len(vBatches) : i \in Range(vBatches[b])}

\* C21: when process_video returns normally, every frame that cap.read()
\* delivered (frame_idx of them) has been handed to analysis in exactly one
\* batch, and frames_processed equals the number of frames delivered.
C21_NoFrameDropped ==
    (entry = "process_video" /\ vPc = "RETURNED")
        => /\ \A i \in 0..(frame_idx - 1) : Cardinality(BatchesHolding(i)) = 1
           /\ frames_processed = frame_idx
           /\ vOut.frames_processed = frame_idx

====
